---- MODULE Spec2Model ----
(***************************************************************************)
(* A model of the AO3 fandom analyzer: the Fandom class of src/fandom.py   *)
(* (constructor, search, getRatingComposition, getWarningComposition,      *)
(* attributeCounter, and the helper counter) and the constructor and      *)
(* attributeCounter of the older variant in src/AO3_analyzer.py.           *)
(*                                                                         *)
(* Python values are encoded as follows.  An optional value is a sequence  *)
(* of length at most one: None is <<>> and the value v is <<v>>.  A dict   *)
(* is a function whose DOMAIN is its key set.  A percentage (a float       *)
(* rounded to two decimals) is the integer number of hundredths.  The      *)
(* archive (the AO3 library and the site behind it) is the environment:    *)
(* its answers are chosen nondeterministically from small sets.            *)
(***************************************************************************)
EXTENDS Integers, Sequences, FiniteSets, TLC

VARIABLES
    pc,               \* where the program is: "new", "idle", a method's step, "done", "raised"
    method,           \* the method the caller called, "" before the call
    variant,          \* which class was constructed: "fandom" or "AO3_analyzer"
    args,             \* the constructor's numeric arguments (min/max of the four dimensions)
    self,             \* the Fandom object's fields
    results,          \* archive: the result set of the attributeCounter query, in order
    pageSize,         \* archive: the number of results on a full page
    queries,          \* every AO3.Search(...).update() issued, in order
    error,            \* the exception that reached the caller, None if none
    ret,              \* the value returned to the caller, None if none (yet)
    heap,             \* the outer tagCount dicts, by reference
    seed,             \* the tagCount argument as the caller passed it (None or a dict)
    tagCount,         \* attributeCounter's tagCount: None or a reference into heap
    type,             \* attributeCounter's type argument
    sampleSize,       \* attributeCounter's sampleSize argument (optional)
    startPage,        \* attributeCounter's startPage argument
    ficsCounted,      \* local of attributeCounter
    pageNumber,       \* local of attributeCounter
    totalWorkCount,   \* local of attributeCounter (optional: unbound before line 191/195)
    relationshipList, \* local of attributeCounter (optional list)
    characterList,    \* local of attributeCounter (optional list)
    tagList,          \* local of attributeCounter (optional list)
    currentPage,      \* the results of the page being iterated
    workIdx,          \* position of the for loop in currentPage.results
    bucketResults,    \* ratingResults / warningResults of the composition methods
    bucketIdx,        \* loop index of the composition methods
    ratingRestriction, \* getWarningComposition's argument (optional)
    analyzer          \* the frame of attributeCounter of src/AO3_analyzer.py

objVars  == <<variant, args, self>>
envVars  == <<results, pageSize>>
attrVars == <<heap, seed, tagCount, type, sampleSize, startPage, ficsCounted, pageNumber,
              totalWorkCount, relationshipList, characterList, tagList, currentPage,
              workIdx>>
compVars == <<bucketResults, bucketIdx, ratingRestriction>>
vars     == <<pc, method, objVars, envVars, queries, error, ret, attrVars, compVars,
              analyzer>>

----------------------------------------------------------------------------
(* Bounds of the model. *)

MaxBound      == 1   \* constructor min/max arguments range over None, 0..MaxBound
MaxTotalWorks == 3   \* total_results recorded at construction ranges over 0..MaxTotalWorks
MaxBucket     == 2   \* a bucket query's total_results ranges over 0..MaxBucket
MaxWorks      == 3   \* small archives hold at most MaxWorks results
MaxPageSize   == 2   \* small archives serve pages of 1..MaxPageSize results
MaxStartPage  == 2   \* startPage ranges over 1..MaxStartPage
MaxPage       == 4   \* no page beyond MaxPage is fetched (caps a loop that never ends)
E2EWorks      == 40  \* size of the large archive of the end-to-end example

(* Program constants. *)

ArchivePageSize == 20   \* "each page contains up to 20 works"

----------------------------------------------------------------------------
(* Python values. *)

None      == <<>>
Some(v)   == <<v>>
Val(o)    == o[1]
EmptyDict == [k \in {} |-> 0]

Min2(a, b) == IF a < b THEN a ELSE b

OptNat(n) == {None} \cup {Some(v) : v \in 0..n}

----------------------------------------------------------------------------
(* The archive library: AO3.utils.Constraint and AO3.Search.               *)

\* AO3.utils.Constraint(min, max): an interval; a bound of None is unbounded.
Constraint(min, max) == [min |-> min, max |-> max]

\* The keyword arguments of one AO3.Search(...) built from the object's
\* stored filters and the per-call overrides.  fandomName, singleChapter,
\* language, crossover, completionStatus, revisedAt, session and the
\* free-text filters are passed through unchanged and are summarised by
\* fandoms.
Search(obj, rating, warnings, page) ==
    [fandoms    |-> obj.fandomName,
     word_count |-> obj.wordCountConstraint,
     hits       |-> obj.hitConstraint,
     bookmarks  |-> obj.bookmarkConstraint,
     comments   |-> obj.commentConstraint,
     rating     |-> rating,
     warnings   |-> warnings,
     page       |-> page]

\* One update(): the query as sent from a call site, and the total_results
\* of the answer.
Update(site, q, total) == [site |-> site, q |-> q, total_results |-> total]

----------------------------------------------------------------------------
(* Fandom.__init__ (both variants).                                        *)

FandomName == "fandom"

ArgNames == {"wordCountMin", "wordCountMax", "minHits", "maxHits",
             "minBookmarks", "maxBookmarks", "minComments", "maxComments"}

\* A faulty builder: the minimum stays unbounded when only a maximum is given.
BuildConstraintUnboundedBelow(min, max) ==
    IF min # None \/ max # None
    THEN Some(Constraint(min, max))
    ELSE None

\* src/fandom.py, one of the four if/else blocks of the constructor.
BuildConstraint(min, max) ==
    IF min # None \/ max # None
    THEN IF min # None
         THEN Some(Constraint(min, max))
         ELSE Some(Constraint(Some(0), max))
    ELSE None

\* src/AO3_analyzer.py, one of the four if/else blocks of the constructor.
AnalyzerBuildConstraint(min, max) ==
    IF min # None \/ max # None
    THEN IF min # None
         THEN Some(Constraint(min, max))
         ELSE Some(Constraint(Some(0), max))
    ELSE None

\* The fields of the object after src/fandom.py lines 58-99.
FandomFields(a) ==
    [fandomName          |-> FandomName,
     wordCountConstraint |-> BuildConstraint(a.wordCountMin, a.wordCountMax),
     hitConstraint       |-> BuildConstraint(a.minHits, a.maxHits),
     bookmarkConstraint  |-> BuildConstraint(a.minBookmarks, a.maxBookmarks),
     commentConstraint   |-> BuildConstraint(a.minComments, a.maxComments),
     totalWorks          |-> None]

\* The fields of the object after src/AO3_analyzer.py lines 37-75.
AnalyzerFields(a) ==
    [fandomName          |-> FandomName,
     wordCountConstraint |-> AnalyzerBuildConstraint(a.wordCountMin, a.wordCountMax),
     hitConstraint       |-> AnalyzerBuildConstraint(a.minHits, a.maxHits),
     bookmarkConstraint  |-> AnalyzerBuildConstraint(a.minBookmarks, a.maxBookmarks),
     commentConstraint   |-> AnalyzerBuildConstraint(a.minComments, a.maxComments),
     totalWorks          |-> None]

NoArgs   == [n \in ArgNames |-> None]
NoObject == [fandomName |-> FandomName, wordCountConstraint |-> None,
             hitConstraint |-> None, bookmarkConstraint |-> None,
             commentConstraint |-> None, totalWorks |-> None]

\* Fandom.__init__ of src/fandom.py: build the four constraints, query the
\* archive once and record its total_results.
Fandom_init ==
    /\ pc = "new"
    /\ \E a \in [ArgNames -> OptNat(MaxBound)], total \in 0..MaxTotalWorks :
          LET obj == FandomFields(a) IN
          /\ args' = a
          /\ self' = [obj EXCEPT !.totalWorks = Some(total)]
          /\ queries' = Append(queries, Update("init", Search(obj, None, None, 1), Some(total)))
    /\ variant' = "fandom"
    /\ pc' = "idle"
    /\ UNCHANGED <<analyzer, method, envVars, error, ret, attrVars, compVars>>

\* Fandom.__init__ of src/AO3_analyzer.py.
Analyzer_init ==
    /\ pc = "new"
    /\ \E a \in [ArgNames -> OptNat(MaxBound)], total \in 0..MaxTotalWorks :
          LET obj == AnalyzerFields(a) IN
          /\ args' = a
          /\ self' = [obj EXCEPT !.totalWorks = Some(total)]
          /\ queries' = Append(queries, Update("init", Search(obj, None, None, 1), Some(total)))
    /\ variant' = "AO3_analyzer"
    /\ pc' = "idle"
    /\ UNCHANGED <<analyzer, method, envVars, error, ret, attrVars, compVars>>

----------------------------------------------------------------------------
(* Initial states.                                                         *)

\* The frame of attributeCounter of src/AO3_analyzer.py before it is called.
\* A local that is not bound yet is None.
NoAnalyzerCall ==
    [pc |-> "idle", type |-> "", sampleSize |-> None, tagCount |-> EmptyDict,
     ficsCounted |-> 0, pageNumber |-> 1, totalWorkCount |-> None,
     totalWrokCount |-> None, attributeList |-> None, currentPage |-> <<>>,
     workIdx |-> 0, queries |-> <<>>, error |-> None, ret |-> None]

\* The frame of a method that has not been called.
NoCall ==
    /\ method = ""
    /\ analyzer = NoAnalyzerCall
    /\ results = <<>> /\ pageSize = 1
    /\ error = None /\ ret = None
    /\ heap = EmptyDict /\ seed = None /\ tagCount = "None" /\ type = "" /\ sampleSize = None
    /\ startPage = 1 /\ ficsCounted = 0 /\ pageNumber = 1
    /\ totalWorkCount = None
    /\ relationshipList = None /\ characterList = None /\ tagList = None
    /\ currentPage = <<>> /\ workIdx = 0
    /\ bucketResults = EmptyDict /\ bucketIdx = 0 /\ ratingRestriction = None

\* Before construction.
InitCtor ==
    /\ pc = "new"
    /\ variant = "" /\ args = NoArgs /\ self = NoObject
    /\ queries = <<>>
    /\ NoCall

NextCtor == Fandom_init \/ Analyzer_init

SpecCtor == InitCtor /\ [][NextCtor]_vars

----------------------------------------------------------------------------
(* The archive as attributeCounter sees it: an ordered result set served   *)
(* in pages of pageSize results; a page past the last result is empty.     *)

WorkA == [tags |-> <<"fluff", "angst">>, relationships |-> <<"A/B">>,
          characters |-> <<"A", "B">>]
WorkB == [tags |-> <<"fluff", "fluff">>, relationships |-> <<>>,
          characters |-> <<"A">>]
Works == {WorkA, WorkB}

SmallArchives ==
    {[results |-> r, pageSize |-> p] :
        r \in UNION {[1..n -> Works] : n \in 0..MaxWorks}, p \in 1..MaxPageSize}

\* The archive of the end-to-end example: E2EWorks results, 20 to a page.
E2EArchive ==
    [results  |-> [i \in 1..E2EWorks |-> IF i % 2 = 1 THEN WorkA ELSE WorkB],
     pageSize |-> ArchivePageSize]

Archives == SmallArchives \cup {E2EArchive}

\* currentPage.results after update() of page k.
PageOf(res, size, k) == SubSeq(res, (k - 1) * size + 1, Min2(k * size, Len(res)))

----------------------------------------------------------------------------
(* counter (src/fandom.py lines 6-19).                                     *)

\* A faulty increment: the entry is overwritten with 1.
IncrementOverwrites(countDict, item) ==
    [x \in DOMAIN countDict \cup {item} |-> IF x = item THEN 1 ELSE countDict[x]]

\* A faulty increment: the count read by setdefault is stored back as it is.
IncrementStoresOld(countDict, item) ==
    [x \in DOMAIN countDict \cup {item} |->
        IF x \in DOMAIN countDict THEN countDict[x] ELSE 0]

\* One iteration of counter's loop: setdefault(item, 0), then store + 1.
Increment(countDict, item) ==
    LET currentCount == IF item \in DOMAIN countDict THEN countDict[item] ELSE 0
    IN  [x \in DOMAIN countDict \cup {item} |->
            IF x = item THEN currentCount + 1 ELSE countDict[x]]

RECURSIVE counter(_, _)
counter(countDict, itemList) ==
    IF itemList = <<>>
    THEN countDict
    ELSE counter(Increment(countDict, Head(itemList)), Tail(itemList))

----------------------------------------------------------------------------
(* Fandom.attributeCounter (src/fandom.py lines 161-213).                  *)

Types    == {"tags", "relationships", "characters", "all", "other"}
TypeKeys == {"tags", "relationships", "characters"}

SeedTags == [k \in {"tags"} |-> [a \in {"fluff"} |-> 3]]
SeedAll  == [k \in TypeKeys |->
                IF k = "tags" THEN [a \in {"fluff"} |-> 3]
                ELSE IF k = "characters" THEN [a \in {"A"} |-> 1]
                ELSE EmptyDict]
Seeds    == {None, Some(SeedTags), Some(SeedAll)}

\* A faulty default: all three tables are created whatever the type.
NewTagCountAlwaysAll(t) == [k \in TypeKeys |-> EmptyDict]

\* Lines 185-186: the table set created when no tagCount is passed.
NewTagCount(t) ==
    IF t = "tags" \/ t = "relationships" \/ t = "characters"
    THEN [k \in {t} |-> EmptyDict]
    ELSE [k \in TypeKeys |-> EmptyDict]

\* A faulty condition: <= as in src/AO3_analyzer.py line 150.
LoopConditionInclusive(counted, target) == counted <= target

\* Line 197: while ficsCounted < totalWorkCount.
LoopCondition(counted, target) == counted < target

\* attributeCounter is entered: lines 184-191.  The caller passes a seed
\* dict (allocated as "seedObj") or None, and then a new dict is allocated
\* as "newObj".  The archive's result set for the query is chosen here.
attributeCounter_call ==
    /\ pc = "idle"
    /\ \E ar \in Archives :
          /\ results' = ar.results
          /\ pageSize' = ar.pageSize
          /\ sampleSize' \in OptNat(Len(ar.results) + 1)
    /\ type' \in Types
    /\ startPage' \in 1..MaxStartPage
    /\ seed' \in Seeds
    /\ IF seed' = None
       THEN /\ heap' = [r \in {"newObj"} |-> NewTagCount(type')]
            /\ tagCount' = "newObj"
       ELSE /\ heap' = [r \in {"seedObj"} |-> Val(seed')]
            /\ tagCount' = "seedObj"
    /\ ficsCounted' = 0
    /\ pageNumber' = startPage'
    /\ relationshipList' = None /\ characterList' = None /\ tagList' = None
    /\ totalWorkCount' = sampleSize'
    /\ pc' = IF sampleSize' # None THEN "loop" ELSE "count"
    /\ method' = "attributeCounter"
    /\ UNCHANGED <<analyzer, objVars, queries, error, ret, currentPage, workIdx, compVars>>

\* Lines 193-195: no sampleSize, so the target is the query's total_results.
attributeCounter_count ==
    /\ pc = "count"
    /\ queries' = Append(queries,
                         Update("count", Search(self, None, None, 1), Some(Len(results))))
    /\ totalWorkCount' = Some(Len(results))
    /\ pc' = "loop"
    /\ UNCHANGED <<analyzer, method, objVars, envVars, error, ret, heap, seed, tagCount, type, sampleSize,
                   startPage, ficsCounted, pageNumber, relationshipList,
                   characterList, tagList, currentPage, workIdx, compVars>>

\* Lines 193-194 when update() raises: nothing catches it.
attributeCounter_countFails ==
    /\ pc = "count"
    /\ queries' = Append(queries, Update("count", Search(self, None, None, 1), None))
    /\ error' = Some("TransportError")
    /\ pc' = "raised"
    /\ UNCHANGED <<analyzer, method, objVars, envVars, ret, attrVars, compVars>>

\* Lines 197-200: the loop condition holds and the next page is fetched.
attributeCounter_fetch ==
    /\ pc = "loop"
    /\ LoopCondition(ficsCounted, Val(totalWorkCount))
    /\ pageNumber <= MaxPage
    /\ queries' = Append(queries,
                         Update("page", Search(self, None, None, pageNumber),
                                Some(Len(results))))
    /\ currentPage' = PageOf(results, pageSize, pageNumber)
    /\ workIdx' = 1
    /\ pc' = "items"
    /\ UNCHANGED <<analyzer, method, objVars, envVars, error, ret, heap, seed, tagCount, type, sampleSize,
                   startPage, ficsCounted, pageNumber, totalWorkCount,
                   relationshipList, characterList, tagList, compVars>>

\* Lines 197-200 when update() raises: nothing catches it.
attributeCounter_fetchFails ==
    /\ pc = "loop"
    /\ LoopCondition(ficsCounted, Val(totalWorkCount))
    /\ pageNumber <= MaxPage
    /\ queries' = Append(queries,
                         Update("page", Search(self, None, None, pageNumber), None))
    /\ error' = Some("TransportError")
    /\ pc' = "raised"
    /\ UNCHANGED <<analyzer, method, objVars, envVars, ret, attrVars, compVars>>

\* Lines 207-209 for one key: skipped when the key is not in tagCount; a
\* list that is still None makes counter's for loop raise TypeError.
CountKey(st, key, list) ==
    IF ~st.ok \/ key \notin DOMAIN st.tables
    THEN st
    ELSE IF list = None
         THEN [st EXCEPT !.ok = FALSE]
         ELSE [st EXCEPT !.tables[key] = counter(@, Val(list))]

\* Lines 203-210: the body of the for loop for one work.
attributeCounter_work ==
    /\ pc = "items"
    /\ workIdx <= Len(currentPage)
    /\ LET work == currentPage[workIdx]
           rl == IF type = "relationships" \/ type \notin TypeKeys
                 THEN Some(work.relationships) ELSE relationshipList
           cl == IF type = "characters" \/ type \notin TypeKeys
                 THEN Some(work.characters) ELSE characterList
           tl == IF type = "tags" \/ type \notin TypeKeys
                 THEN Some(work.tags) ELSE tagList
           s0 == [tables |-> heap[tagCount], ok |-> TRUE]
           s1 == CountKey(s0, "relationships", rl)
           s2 == CountKey(s1, "characters", cl)
           s3 == CountKey(s2, "tags", tl)
       IN  /\ relationshipList' = rl
           /\ characterList' = cl
           /\ tagList' = tl
           /\ heap' = [heap EXCEPT ![tagCount] = s3.tables]
           /\ IF s3.ok
              THEN /\ ficsCounted' = ficsCounted + 1
                   /\ workIdx' = workIdx + 1
                   /\ UNCHANGED <<pc, error>>
              ELSE /\ error' = Some("TypeError")
                   /\ pc' = "raised"
                   /\ UNCHANGED <<ficsCounted, workIdx>>
    /\ UNCHANGED <<analyzer, method, objVars, envVars, queries, ret, seed, tagCount, type, sampleSize,
                   startPage, pageNumber, totalWorkCount, currentPage, compVars>>

\* Lines 211-212: the page is exhausted; advance (and sleep waitTime).
attributeCounter_nextPage ==
    /\ pc = "items"
    /\ workIdx > Len(currentPage)
    /\ pageNumber' = pageNumber + 1
    /\ pc' = "loop"
    /\ UNCHANGED <<analyzer, method, objVars, envVars, queries, error, ret, heap, seed, tagCount, type,
                   sampleSize, startPage, ficsCounted, totalWorkCount,
                   relationshipList, characterList, tagList, currentPage, workIdx,
                   compVars>>

\* Lines 197 and 213: the loop condition fails and tagCount is returned.
attributeCounter_return ==
    /\ pc = "loop"
    /\ ~LoopCondition(ficsCounted, Val(totalWorkCount))
    /\ ret' = Some(tagCount)
    /\ pc' = "done"
    /\ UNCHANGED <<analyzer, method, objVars, envVars, queries, error, attrVars, compVars>>

\* The object the methods are called on: built by Fandom.__init__ of
\* src/fandom.py with wordCountMax = 1 and no other bound.
InitArgs == [NoArgs EXCEPT !.wordCountMax = Some(1)]

Constructed(total) ==
    /\ variant = "fandom"
    /\ args = InitArgs
    /\ self = [FandomFields(InitArgs) EXCEPT !.totalWorks = Some(total)]
    /\ queries = <<Update("init", Search(FandomFields(InitArgs), None, None, 1),
                          Some(total))>>

Init ==
    /\ pc = "idle"
    /\ Constructed(MaxTotalWorks)
    /\ NoCall

Next ==
    \/ attributeCounter_call
    \/ attributeCounter_count
    \/ attributeCounter_countFails
    \/ attributeCounter_fetch
    \/ attributeCounter_fetchFails
    \/ attributeCounter_work
    \/ attributeCounter_nextPage
    \/ attributeCounter_return

Spec == Init /\ [][Next]_vars

----------------------------------------------------------------------------
(* What a run of attributeCounter did, read off the state.                 *)

Sites(site)  == SelectSeq(queries, LAMBDA u : u.site = site)
FetchedPages == [i \in 1..Len(Sites("page")) |-> Sites("page")[i].q.page]

CeilDiv(n, d) == (n + d - 1) \div d

\* The keys a type selects.
KeysOf(t) == IF t \in TypeKeys THEN {t} ELSE TypeKeys

\* The works consumed so far: pages are consumed in order from startPage, so
\* they are the ficsCounted results that follow the pages skipped.
ConsumedWorks ==
    SubSeq(results, (startPage - 1) * pageSize + 1,
                    (startPage - 1) * pageSize + ficsCounted)

AllAttrs == {"fluff", "angst", "A/B", "A", "B"}

Occ(a, list) == Cardinality({i \in 1..Len(list) : list[i] = a})

RECURSIVE OccIn(_, _, _)
OccIn(a, key, works) ==
    IF works = <<>> THEN 0
    ELSE Occ(a, Head(works)[key]) + OccIn(a, key, Tail(works))

Get(table, a) == IF a \in DOMAIN table THEN table[a] ELSE 0

\* table1 is table0 with every occurrence of every attribute in the key
\* lists of works added, and nothing else.
ExtendedBy(table0, table1, key, works) ==
    /\ DOMAIN table0 \subseteq DOMAIN table1
    /\ DOMAIN table1 \subseteq AllAttrs
    /\ \A a \in AllAttrs :
          /\ Get(table1, a) = Get(table0, a) + OccIn(a, key, works)
          /\ a \in DOMAIN table1 <=> (a \in DOMAIN table0 \/ OccIn(a, key, works) > 0)

\* The objects the caller holds a reference to: the seed it passed, and
\* whatever was returned to it.
CallerRefs ==
    (IF seed # None THEN {"seedObj"} ELSE {}) \cup (IF ret # None THEN {Val(ret)} ELSE {})

----------------------------------------------------------------------------
(* Claims about attributeCounter, checked under Spec.                      *)

\* C1: with an explicit sampleSize n >= 1 and every fetched page holding
\* exactly pageSize results (20 in the large archive), the pages fetched
\* are startPage, startPage+1, ..., startPage+ceil(n/pageSize)-1, in that
\* order, each once.
C1_PagesFetched ==
    (/\ pc = "done"
     /\ sampleSize # None
     /\ Val(sampleSize) >= 1
     /\ \A i \in DOMAIN FetchedPages :
           Len(PageOf(results, pageSize, FetchedPages[i])) = pageSize)
    => FetchedPages = [i \in 1..CeilDiv(Val(sampleSize), pageSize) |-> startPage + i - 1]

\* C1 witness: the large archive (40 works, 20 to a page), sampleSize 21:
\* exactly pages 1 and 2 were fetched.
C1_Witness ==
    /\ pc = "done"
    /\ pageSize = ArchivePageSize
    /\ sampleSize = Some(ArchivePageSize + 1)
    /\ startPage = 1
    /\ FetchedPages = <<1, 2>>
    /\ ficsCounted = 2 * ArchivePageSize

\* The loop can make no more progress: its condition holds and no result
\* lies on the page to fetch or on any later page, so every further
\* iteration fetches an empty page and leaves ficsCounted as it is.
LoopStuck ==
    /\ pc = "loop"
    /\ LoopCondition(ficsCounted, Val(totalWorkCount))
    /\ (pageNumber - 1) * pageSize >= Len(results)

\* Once the loop is stuck it stays stuck: from a stuck state the run
\* passes only through the empty page back to a stuck state, or a fetch
\* fails.
StuckStaysStuck ==
    [][LoopStuck => \/ pc' = "raised"
                    \/ (pc' = "items" /\ currentPage' = <<>>)
                    \/ LoopStuck']_vars
EmptyPageLeadsBackToStuck ==
    [][(pc = "items" /\ currentPage = <<>>
        /\ pageNumber * pageSize >= Len(results)
        /\ LoopCondition(ficsCounted, Val(totalWorkCount))) => LoopStuck']_vars

\* C2: attributeCounter never loops indefinitely (every fetch returning):
\* the loop never gets stuck fetching empty pages below its target.
C2_Terminates == ~LoopStuck

\* C3: when the query's total result count is zero, attributeCounter,
\* with or without a sampleSize, fetches no page, and returns tables that
\* are all empty.
C3_ZeroResultsNoFetch ==
    (pc # "idle" /\ Len(results) = 0)
    => /\ Sites("page") = <<>>
       /\ pc = "done" /\ seed = None => \A k \in DOMAIN heap[Val(ret)] :
                                            heap[Val(ret)][k] = EmptyDict

\* C4: with sampleSize = n, at return at most n result items were counted.
C4_AtMostSampleSize ==
    (pc = "done" /\ sampleSize # None) => ficsCounted <= Val(sampleSize)

\* C5: seeded with a tagCount whose keys are those the type selects, at
\* return the object returned is the seed object, and each selected table
\* is the seed's table plus every occurrence of every attribute in that
\* list of the works consumed.
C5_SeedExtended ==
    (pc = "done" /\ seed # None /\ DOMAIN Val(seed) = KeysOf(type))
    => /\ ret = Some("seedObj")
       /\ DOMAIN heap = {"seedObj"}
       /\ DOMAIN heap["seedObj"] = DOMAIN Val(seed)
       /\ \A k \in DOMAIN Val(seed) :
             ExtendedBy(Val(seed)[k], heap["seedObj"][k], k, ConsumedWorks)

\* C5 witness: the seed {"tags": {"fluff": 3}} and one work tagged
\* ["fluff", "angst"] gave {"tags": {"fluff": 4, "angst": 1}}.
C5_Witness ==
    /\ pc = "done"
    /\ seed = Some(SeedTags)
    /\ type = "tags"
    /\ results = <<WorkA>>
    /\ ficsCounted = 1
    /\ ret = Some("seedObj")
    /\ heap["seedObj"] = [k \in {"tags"} |->
                            [a \in {"fluff", "angst"} |-> IF a = "fluff" THEN 4 ELSE 1]]

\* A page fetch has just failed, after at least one result was counted.
FetchFailed ==
    /\ pc = "raised"
    /\ ficsCounted > 0
    /\ error = Some("TransportError")
    /\ queries[Len(queries)].site = "page"

\* When the fetch of page k fails: the error is the archive's, the failed
\* fetch is the last query (no retry, no further fetch), and tagCount holds
\* the seed (or the new tables) plus the pages before k and nothing of k.
FailurePropagates ==
    FetchFailed
    => /\ queries[Len(queries)].total_results = None
       /\ \A i \in 1..(Len(queries) - 1) : queries[i].total_results # None
       /\ FetchedPages = [i \in 1..Len(FetchedPages) |-> startPage + i - 1]
       /\ \A k \in DOMAIN heap[tagCount] \cap KeysOf(type) :
             ExtendedBy(IF seed = None THEN EmptyDict ELSE Val(seed)[k],
                        heap[tagCount][k], k, ConsumedWorks)

\* C7: if the fetch of page k fails, the error reaches the caller, no
\* further fetch is issued, and the partial tables (seed plus the pages
\* before k) are discoverable by the caller, with or without a seed.
\* Stated for the runs that had accumulated something before page k.
C7_PartialDiscoverable ==
    FetchFailed => (FailurePropagates /\ tagCount \in CallerRefs)

\* C10: with no seed, the table set has exactly the keys the type selects
\* (the type itself, or all three for 'all' and any other string), and at
\* every step each table holds exactly the occurrences of the attributes
\* in that type's list of the works consumed so far.
C10_SelectedTypes ==
    (pc # "idle" /\ seed = None)
    => /\ tagCount = "newObj"
       /\ DOMAIN heap["newObj"] = KeysOf(type)
       /\ KeysOf(type) =
            (CASE type = "tags" -> {"tags"}
               [] type = "relationships" -> {"relationships"}
               [] type = "characters" -> {"characters"}
               [] OTHER -> {"tags", "relationships", "characters"})
       /\ \A k \in DOMAIN heap["newObj"] :
             ExtendedBy(EmptyDict, heap["newObj"][k], k, ConsumedWorks)
       /\ error # Some("TypeError")

\* C10 witness: an unrecognised type, two works consumed, all three tables
\* filled from the works' own lists.
C10_Witness ==
    /\ pc = "done"
    /\ seed = None
    /\ type = "other"
    /\ results = <<WorkA, WorkB>>
    /\ ficsCounted = 2
    /\ heap["newObj"]["relationships"] = [a \in {"A/B"} |-> 1]
    /\ heap["newObj"]["characters"] = [a \in {"A", "B"} |-> IF a = "A" THEN 2 ELSE 1]
    /\ heap["newObj"]["tags"] = [a \in {"fluff", "angst"} |-> IF a = "fluff" THEN 3 ELSE 1]

\* Every count of every table is a positive integer.
CountsPositive ==
    \A r \in DOMAIN heap : \A k \in DOMAIN heap[r] : \A a \in DOMAIN heap[r][k] :
        heap[r][k][a] \in Nat /\ heap[r][k][a] >= 1

\* One step removes no table and no attribute and lowers no count.
TablesGrow ==
    \A r \in DOMAIN heap :
        /\ r \in DOMAIN heap'
        /\ \A k \in DOMAIN heap[r] :
              /\ k \in DOMAIN heap'[r]
              /\ \A a \in DOMAIN heap[r][k] :
                    /\ a \in DOMAIN heap'[r][k]
                    /\ heap'[r][k][a] >= heap[r][k][a]

\* C11: frequency tables grow monotonically: at every step of a run (each
\* work, each page) every attribute present before the step is present
\* after it with a count at least as large, and every count of an entry
\* that exists is a positive integer.
C11_TablesGrow == [](CountsPositive) /\ [][TablesGrow]_vars

\* C11 witness: in the middle of a run over a seed, after two works: the
\* seed's entries have grown and new entries have appeared.
C11_Witness ==
    /\ pc = "items"
    /\ seed = Some(SeedAll)
    /\ type = "all"
    /\ ficsCounted = 2
    /\ heap["seedObj"]["tags"] = [a \in {"fluff", "angst"} |-> IF a = "fluff" THEN 6 ELSE 1]
    /\ heap["seedObj"]["characters"] = [a \in {"A", "B"} |-> IF a = "A" THEN 3 ELSE 1]
    /\ heap["seedObj"]["relationships"] = [a \in {"A/B"} |-> 1]

\* The run was seeded with a table for a type its selector does not select.
SeedHasUnselected ==
    /\ seed # None
    /\ type \in TypeKeys
    /\ type \in DOMAIN Val(seed)
    /\ DOMAIN Val(seed) # {type}

\* C12: seeded with a table set that holds a table for a type the selector
\* does not select, the run completes without error, the tables of the
\* unselected types are unchanged and the selected type's table is the one
\* incremented.
C12_UnselectedUntouched ==
    (SeedHasUnselected /\ pc \in {"done", "raised"})
    => /\ error \in {None, Some("TransportError")}
       /\ \A k \in DOMAIN Val(seed) \ {type} : heap["seedObj"][k] = Val(seed)[k]
       /\ pc = "done" =>
             ExtendedBy(Val(seed)[type], heap["seedObj"][type], type, ConsumedWorks)

----------------------------------------------------------------------------
(* Fandom.getRatingComposition and Fandom.getWarningComposition            *)
(* (src/fandom.py lines 125-159).                                          *)

RatingValues  == <<9, 10, 11, 12, 13>>
WarningValues == <<14, 16, 17, 18, 19, 20>>
WarningLabels == <<"Creator Chose Not To Use Archive Warnings: ",
                   "No Archive Warnings Apply: ",
                   "Graphic Depictions Of Violence: ",
                   "Major Character Death: ",
                   "Rape/Non-Con: ",
                   "Underage: ">>

\* A faulty rounding: the percentage is cut off after two decimals.
Round2Truncates(num, den) == (100 * num) \div den

\* round(num / den, 2), in hundredths: the nearest hundredth, a tie going
\* to the even one.  (A tie needs a denominator divisible by 32.)
Round2(num, den) ==
    LET q == (100 * num) \div den
        r == (100 * num) % den
    IN  IF 2 * r < den THEN q
        ELSE IF 2 * r > den THEN q + 1
        ELSE IF q % 2 = 0 THEN q ELSE q + 1

\* Line 135: the rating of iteration i of range(0, 5).
RatingOf(i) == i + 9

\* Line 132.
getRatingComposition_call ==
    /\ pc = "idle"
    /\ method' = "getRatingComposition"
    /\ bucketResults' = [r \in {9, 10, 11, 12, 13} |-> None]
    /\ bucketIdx' = 0
    /\ pc' = "rating"
    /\ UNCHANGED <<analyzer, objVars, envVars, queries, error, ret, attrVars, ratingRestriction>>

\* Lines 134-138: one iteration; the division raises when totalWorks is 0.
getRatingComposition_bucket ==
    /\ pc = "rating"
    /\ bucketIdx < 5
    /\ \E total \in 0..MaxBucket :
          /\ queries' = Append(queries,
                               Update("rating",
                                      Search(self, Some(RatingOf(bucketIdx)), None, 1),
                                      Some(total)))
          /\ IF Val(self.totalWorks) = 0
             THEN /\ error' = Some("ZeroDivisionError")
                  /\ pc' = "raised"
                  /\ UNCHANGED <<bucketResults, bucketIdx>>
             ELSE /\ bucketResults' =
                        [bucketResults EXCEPT ![RatingOf(bucketIdx)] =
                            Some(<<total, Round2(100 * total, Val(self.totalWorks))>>)]
                  /\ bucketIdx' = bucketIdx + 1
                  /\ UNCHANGED <<pc, error>>
    /\ UNCHANGED <<analyzer, method, objVars, envVars, ret, attrVars, ratingRestriction>>

\* Lines 135-136 when update() raises: nothing catches it.
getRatingComposition_bucketFails ==
    /\ pc = "rating"
    /\ bucketIdx < 5
    /\ queries' = Append(queries,
                         Update("rating",
                                Search(self, Some(RatingOf(bucketIdx)), None, 1), None))
    /\ error' = Some("TransportError")
    /\ pc' = "raised"
    /\ UNCHANGED <<analyzer, method, objVars, envVars, ret, attrVars, compVars>>

\* Line 140.
getRatingComposition_return ==
    /\ pc = "rating"
    /\ bucketIdx = 5
    /\ ret' = Some(bucketResults)
    /\ pc' = "done"
    /\ UNCHANGED <<analyzer, method, objVars, envVars, queries, error, attrVars, compVars>>

\* Lines 150-152.  A line of the report is kept as its label and the two
\* numbers formatted into it.
getWarningComposition_call ==
    /\ pc = "idle"
    /\ method' = "getWarningComposition"
    /\ ratingRestriction' \in {None} \cup {Some(RatingValues[i]) : i \in 1..5}
    /\ bucketResults' = [i \in 1..6 |-> [label |-> WarningLabels[i], fics |-> None,
                                         percent |-> None]]
    /\ bucketIdx' = 0
    /\ pc' = "warning"
    /\ UNCHANGED <<analyzer, objVars, envVars, queries, error, ret, attrVars>>

\* Lines 153-157: one iteration; the division raises when totalWorks is 0.
getWarningComposition_bucket ==
    /\ pc = "warning"
    /\ bucketIdx < 6
    /\ \E total \in 0..MaxBucket :
          /\ queries' = Append(queries,
                               Update("warning",
                                      Search(self, ratingRestriction,
                                             Some(<<WarningValues[bucketIdx + 1]>>), 1),
                                      Some(total)))
          /\ IF Val(self.totalWorks) = 0
             THEN /\ error' = Some("ZeroDivisionError")
                  /\ pc' = "raised"
                  /\ UNCHANGED <<bucketResults, bucketIdx>>
             ELSE /\ bucketResults' =
                        [bucketResults EXCEPT ![bucketIdx + 1] =
                            [@ EXCEPT !.fics = Some(total),
                                      !.percent = Some(Round2(100 * total,
                                                              Val(self.totalWorks)))]]
                  /\ bucketIdx' = bucketIdx + 1
                  /\ UNCHANGED <<pc, error>>
    /\ UNCHANGED <<analyzer, method, objVars, envVars, ret, attrVars, ratingRestriction>>

\* Lines 154-155 when update() raises: nothing catches it.
getWarningComposition_bucketFails ==
    /\ pc = "warning"
    /\ bucketIdx < 6
    /\ queries' = Append(queries,
                         Update("warning",
                                Search(self, ratingRestriction,
                                       Some(<<WarningValues[bucketIdx + 1]>>), 1), None))
    /\ error' = Some("TransportError")
    /\ pc' = "raised"
    /\ UNCHANGED <<analyzer, method, objVars, envVars, ret, attrVars, compVars>>

\* Line 159: the fandom's heading and the six lines.
getWarningComposition_return ==
    /\ pc = "warning"
    /\ bucketIdx = 6
    /\ ret' = Some([heading |-> self.fandomName, lines |-> bucketResults])
    /\ pc' = "done"
    /\ UNCHANGED <<analyzer, method, objVars, envVars, queries, error, attrVars, compVars>>

\* The object of the composition methods: constructed as above, with any
\* total recorded at construction.
InitComp ==
    /\ pc = "idle"
    /\ \E total \in 0..MaxTotalWorks : Constructed(total)
    /\ NoCall

NextComp ==
    \/ getRatingComposition_call
    \/ getRatingComposition_bucket
    \/ getRatingComposition_bucketFails
    \/ getRatingComposition_return
    \/ getWarningComposition_call
    \/ getWarningComposition_bucket
    \/ getWarningComposition_bucketFails
    \/ getWarningComposition_return

SpecComp == InitComp /\ [][NextComp]_vars

----------------------------------------------------------------------------
(* Claims about the composition methods, checked under SpecComp.           *)

\* C6: when totalWorks recorded at construction is zero, the composition
\* methods end in an explicit reported error, not in an uncaught
\* division-by-zero fault.
C6_ZeroTotalReported ==
    (/\ method \in {"getRatingComposition", "getWarningComposition"}
     /\ self.totalWorks = Some(0)
     /\ pc \in {"done", "raised"})
    => error # None /\ error # Some("ZeroDivisionError")

Abs(x) == IF x < 0 THEN -x ELSE x

\* C9: with totalWorks > 0, getRatingComposition issues exactly five
\* queries, for ratings 9, 10, 11, 12, 13 in that order, each with the
\* stored filters plus the rating, and returns a mapping with exactly those
\* five keys, each value the bucket's count and 100 * count / totalWorks
\* rounded to two decimals, totalWorks being the count recorded at
\* construction.
C9_RatingComposition ==
    (pc = "done" /\ method = "getRatingComposition" /\ Val(self.totalWorks) > 0)
    => /\ Len(queries) = 6
       /\ self.totalWorks = queries[1].total_results
       /\ DOMAIN Val(ret) = {9, 10, 11, 12, 13}
       /\ \A i \in 1..5 :
             LET u == queries[i + 1]
                 count == Val(u.total_results)
                 entry == Val(Val(ret)[8 + i])
             IN  /\ u.site = "rating"
                 /\ u.q.rating = Some(8 + i)
                 /\ u.q.warnings = None
                 /\ u.q.fandoms = self.fandomName
                 /\ u.q.word_count = self.wordCountConstraint
                 /\ u.q.hits = self.hitConstraint
                 /\ u.q.bookmarks = self.bookmarkConstraint
                 /\ u.q.comments = self.commentConstraint
                 /\ entry[1] = count
                 /\ 2 * Abs(10000 * count - entry[2] * Val(self.totalWorks))
                       <= Val(self.totalWorks)

\* C9 witness: 3 works at construction; the buckets hold 1, 2, 0, 1, 2,
\* reported as 33.33, 66.67, 0.0, 33.33 and 66.67 percent.
C9_Witness ==
    /\ pc = "done"
    /\ method = "getRatingComposition"
    /\ self.totalWorks = Some(3)
    /\ self.wordCountConstraint = Some(Constraint(Some(0), Some(1)))
    /\ ret = Some([r \in {9, 10, 11, 12, 13} |->
                     Some(IF r \in {9, 12} THEN <<1, 3333>>
                          ELSE IF r \in {10, 13} THEN <<2, 6667>>
                          ELSE <<0, 0>>)])

----------------------------------------------------------------------------
(* Claims about the constructor, checked under SpecCtor.                   *)

Dimensions ==
    {[min |-> "wordCountMin", max |-> "wordCountMax", field |-> "wordCountConstraint"],
     [min |-> "minHits", max |-> "maxHits", field |-> "hitConstraint"],
     [min |-> "minBookmarks", max |-> "maxBookmarks", field |-> "bookmarkConstraint"],
     [min |-> "minComments", max |-> "maxComments", field |-> "commentConstraint"]}

\* C8: for each of the four numeric dimensions, in both variants, the
\* constructor builds no constraint when min and max are both None, the
\* interval [0, max] when only max is given, [min, unbounded] when only
\* min is given, and [min, max] when both are given.
C8_Constraints ==
    pc = "idle"
    => \A d \in Dimensions :
          LET lo == args[d.min]
              hi == args[d.max]
              built == self[d.field]
          IN  /\ (lo = None /\ hi = None) => built = None
              /\ (lo = None /\ hi # None) =>
                    built = Some([min |-> Some(0), max |-> hi])
              /\ (lo # None /\ hi = None) =>
                    built = Some([min |-> lo, max |-> None])
              /\ (lo # None /\ hi # None) =>
                    built = Some([min |-> lo, max |-> hi])

\* C8 witness: one object of src/fandom.py showing all four cases.
C8_Witness ==
    /\ pc = "idle"
    /\ variant = "fandom"
    /\ args.wordCountMin = None /\ args.wordCountMax = Some(1)
    /\ self.wordCountConstraint = Some([min |-> Some(0), max |-> Some(1)])
    /\ args.minHits = Some(1) /\ args.maxHits = None
    /\ self.hitConstraint = Some([min |-> Some(1), max |-> None])
    /\ args.minBookmarks = None /\ args.maxBookmarks = None
    /\ self.bookmarkConstraint = None
    /\ args.minComments = Some(0) /\ args.maxComments = Some(1)
    /\ self.commentConstraint = Some([min |-> Some(0), max |-> Some(1)])

----------------------------------------------------------------------------
(* Fandom.attributeCounter of the older variant (src/AO3_analyzer.py lines *)
(* 121-167).  Its frame is the record analyzer; it queries the same        *)
(* archive (results, pageSize) with the same stored filters.               *)

\* Line 150: while ficsCounted <= totalWorkCount.
AnalyzerLoopCondition(counted, target) == counted <= target

\* Lines 162-164: the counting loop, written out in the method.
RECURSIVE AnalyzerCount(_, _)
AnalyzerCount(table, attributeList) ==
    IF attributeList = <<>>
    THEN table
    ELSE LET attribute == Head(attributeList)
             currentCount == IF attribute \in DOMAIN table THEN table[attribute] ELSE 0
         IN  AnalyzerCount([x \in DOMAIN table \cup {attribute} |->
                               IF x = attribute THEN currentCount + 1 ELSE table[x]],
                           Tail(attributeList))

\* Lines 138-142: the method is entered with type t and sampleSize s.
Analyzer_attributeCounter_call(t, s) ==
    /\ analyzer.pc = "idle"
    /\ analyzer' = [analyzer EXCEPT !.type = t, !.sampleSize = s,
                                    !.tagCount = EmptyDict, !.ficsCounted = 0,
                                    !.pageNumber = 1,
                                    !.totalWorkCount = s,
                                    !.pc = IF s # None THEN "loop" ELSE "count"]
    /\ UNCHANGED <<pc, method, objVars, envVars, queries, error, ret, attrVars, compVars>>

\* Lines 144-148: the total is stored in totalWrokCount, another name than
\* the one the loop reads.
Analyzer_attributeCounter_count ==
    /\ analyzer.pc = "count"
    /\ analyzer' = [analyzer EXCEPT
                      !.queries = Append(@, Update("count", Search(self, None, None, 1),
                                                   Some(Len(results)))),
                      !.totalWrokCount = Some(Len(results)),
                      !.pc = "loop"]
    /\ UNCHANGED <<pc, method, objVars, envVars, queries, error, ret, attrVars, compVars>>

\* Lines 144-147 when update() raises: nothing catches it.
Analyzer_attributeCounter_countFails ==
    /\ analyzer.pc = "count"
    /\ analyzer' = [analyzer EXCEPT
                      !.queries = Append(@, Update("count", Search(self, None, None, 1),
                                                   None)),
                      !.error = Some("TransportError"),
                      !.pc = "raised"]
    /\ UNCHANGED <<pc, method, objVars, envVars, queries, error, ret, attrVars, compVars>>

\* Line 150 when totalWorkCount was never bound: reading it raises.
Analyzer_attributeCounter_unbound ==
    /\ analyzer.pc = "loop"
    /\ analyzer.totalWorkCount = None
    /\ analyzer' = [analyzer EXCEPT !.error = Some("UnboundLocalError"), !.pc = "raised"]
    /\ UNCHANGED <<pc, method, objVars, envVars, queries, error, ret, attrVars, compVars>>

\* Lines 150-155: the loop condition holds and the next page is fetched.
Analyzer_attributeCounter_fetch ==
    /\ analyzer.pc = "loop"
    /\ analyzer.totalWorkCount # None
    /\ AnalyzerLoopCondition(analyzer.ficsCounted, Val(analyzer.totalWorkCount))
    /\ analyzer.pageNumber <= MaxPage
    /\ analyzer' = [analyzer EXCEPT
                      !.queries = Append(@, Update("page",
                                                   Search(self, None, None,
                                                          analyzer.pageNumber),
                                                   Some(Len(results)))),
                      !.currentPage = PageOf(results, pageSize, analyzer.pageNumber),
                      !.workIdx = 1,
                      !.pc = "items"]
    /\ UNCHANGED <<pc, method, objVars, envVars, queries, error, ret, attrVars, compVars>>

\* Lines 150-155 when update() raises: nothing catches it.
Analyzer_attributeCounter_fetchFails ==
    /\ analyzer.pc = "loop"
    /\ analyzer.totalWorkCount # None
    /\ AnalyzerLoopCondition(analyzer.ficsCounted, Val(analyzer.totalWorkCount))
    /\ analyzer.pageNumber <= MaxPage
    /\ analyzer' = [analyzer EXCEPT
                      !.queries = Append(@, Update("page",
                                                   Search(self, None, None,
                                                          analyzer.pageNumber),
                                                   None)),
                      !.error = Some("TransportError"),
                      !.pc = "raised"]
    /\ UNCHANGED <<pc, method, objVars, envVars, queries, error, ret, attrVars, compVars>>

\* Lines 157-165: the body of the for loop for one work.
Analyzer_attributeCounter_work ==
    /\ analyzer.pc = "items"
    /\ analyzer.workIdx <= Len(analyzer.currentPage)
    /\ LET work == analyzer.currentPage[analyzer.workIdx]
           attributeList == IF analyzer.type = "relationships" THEN work.relationships
                            ELSE IF analyzer.type = "characters" THEN work.characters
                            ELSE work.tags
       IN  analyzer' = [analyzer EXCEPT
                          !.attributeList = Some(attributeList),
                          !.tagCount = AnalyzerCount(@, attributeList),
                          !.ficsCounted = @ + 1,
                          !.workIdx = @ + 1]
    /\ UNCHANGED <<pc, method, objVars, envVars, queries, error, ret, attrVars, compVars>>

\* Line 166: the page is exhausted.
Analyzer_attributeCounter_nextPage ==
    /\ analyzer.pc = "items"
    /\ analyzer.workIdx > Len(analyzer.currentPage)
    /\ analyzer' = [analyzer EXCEPT !.pageNumber = @ + 1, !.pc = "loop"]
    /\ UNCHANGED <<pc, method, objVars, envVars, queries, error, ret, attrVars, compVars>>

\* Lines 150 and 167: the loop condition fails and tagCount is returned.
Analyzer_attributeCounter_return ==
    /\ analyzer.pc = "loop"
    /\ analyzer.totalWorkCount # None
    /\ ~AnalyzerLoopCondition(analyzer.ficsCounted, Val(analyzer.totalWorkCount))
    /\ analyzer' = [analyzer EXCEPT !.ret = Some(analyzer.tagCount), !.pc = "done"]
    /\ UNCHANGED <<pc, method, objVars, envVars, queries, error, ret, attrVars, compVars>>

----------------------------------------------------------------------------
(* The two variants side by side: a caller runs attributeCounter of        *)
(* src/fandom.py with startPage = 1 and no seed, and attributeCounter of   *)
(* src/AO3_analyzer.py with the same type and sampleSize, on objects built *)
(* from the same arguments, against the same small archive.                *)

Caller_callsFandom ==
    /\ attributeCounter_call
    /\ seed' = None
    /\ startPage' = 1
    /\ type' \in TypeKeys
    /\ [results |-> results', pageSize |-> pageSize'] \in SmallArchives

Caller_callsAnalyzer ==
    /\ method = "attributeCounter"
    /\ Analyzer_attributeCounter_call(type, sampleSize)

NextEquiv ==
    \/ Caller_callsFandom
    \/ attributeCounter_count
    \/ attributeCounter_countFails
    \/ attributeCounter_fetch
    \/ attributeCounter_fetchFails
    \/ attributeCounter_work
    \/ attributeCounter_nextPage
    \/ attributeCounter_return
    \/ Caller_callsAnalyzer
    \/ Analyzer_attributeCounter_count
    \/ Analyzer_attributeCounter_countFails
    \/ Analyzer_attributeCounter_unbound
    \/ Analyzer_attributeCounter_fetch
    \/ Analyzer_attributeCounter_fetchFails
    \/ Analyzer_attributeCounter_work
    \/ Analyzer_attributeCounter_nextPage
    \/ Analyzer_attributeCounter_return

SpecEquiv == Init /\ [][NextEquiv]_vars

----------------------------------------------------------------------------
(* Claims about the two variants, checked under SpecEquiv.                 *)

AnalyzerPages ==
    LET p == SelectSeq(analyzer.queries, LAMBDA u : u.site = "page")
    IN  [i \in 1..Len(p) |-> p[i].q.page]

\* C13: for type in {'tags', 'relationships', 'characters'}, the same
\* result set and the same sampleSize (an integer or None), when
\* attributeCounter of src/fandom.py (startPage = 1, no seed) has returned
\* and no fetch of the other run failed, attributeCounter of
\* src/AO3_analyzer.py has fetched no page the first did not fetch, and
\* once it has ended it has returned, having fetched the same sequence of
\* pages, the same table as the first returned for that type.
C13_SameAggregation ==
    (pc = "done" /\ analyzer.error # Some("TransportError"))
    => /\ Len(AnalyzerPages) <= Len(FetchedPages)
       /\ AnalyzerPages = SubSeq(FetchedPages, 1, Len(AnalyzerPages))
       /\ analyzer.pc \in {"done", "raised"} =>
             /\ analyzer.pc = "done"
             /\ AnalyzerPages = FetchedPages
             /\ analyzer.ret = Some(heap[Val(ret)][type])

====
